---------------------------- MODULE Spec2Model ----------------------------
(***************************************************************************)
(* reconstruct2stack: a JSER document (per-slice polygon annotations with  *)
(* a magnification and 6 transform coefficients per slice) is flattened    *)
(* into Contours, calibrated, and rasterized into one labelled mask per    *)
(* colour and slice.                                                       *)
(*                                                                         *)
(* Numbers are exact rationals <<n, d>> (d > 0, lowest terms).  Strings    *)
(* that the code inspects (structure names) are sequences of code points.  *)
(* A document key "<prefix>.<suffix>" is the record of its two parts.      *)
(***************************************************************************)
EXTENDS Integers, Sequences, FiniteSets, TLC

(***************************************************************************)
(* Bounds of the model.                                                    *)
(***************************************************************************)
NumSlices == 2        \* slices of a document, indices 0 .. NumSlices-1
MaxContours == 2      \* raw contours of a document, over all its slices
CanvasSize == 3       \* image_size_xy = (CanvasSize, CanvasSize)

(***************************************************************************)
(* Program constants.                                                      *)
(***************************************************************************)
MinFillPoints == 3    \* if len(con.x) < 3: continue
Uint8Max == 255       \* dtype=np.uint8

(***************************************************************************)
(* Numbers.                                                                *)
(***************************************************************************)
Abs(n) == IF n < 0 THEN -n ELSE n

RECURSIVE GCD(_, _)
GCD(a, b) == IF b = 0 THEN a ELSE GCD(b, a % b)

Rat(n, d) ==
    IF d = 1 THEN <<n, 1>>
    ELSE LET g == GCD(Abs(n), d) IN <<n \div g, d \div g>>
Whole(n) == <<n, 1>>
RMul(p, q) == Rat(p[1] * q[1], p[2] * q[2])
RAdd(p, q) == Rat(p[1] * q[2] + q[1] * p[2], p[2] * q[2])
RInv(p) == IF p[1] > 0 THEN Rat(p[2], p[1]) ELSE Rat(-p[2], -p[1])
\* int(f) and astype(np.int32): truncation toward zero
Trunc(p) == IF p[1] >= 0 THEN p[1] \div p[2] ELSE -((-p[1]) \div p[2])
\* str(f) of the numbers the model uses (integers and halves)
StrNum(p) ==
    IF p[2] = 1 THEN ToString(p[1])
    ELSE IF p[2] = 2 /\ p[1] >= 0 THEN ToString(p[1] \div 2) \o ".5"
    ELSE ToString(p[1]) \o "/" \o ToString(p[2])

(***************************************************************************)
(* Sequences and mappings.                                                 *)
(***************************************************************************)
Range(s) == {s[i] : i \in DOMAIN s}
Min(a, b) == IF a < b THEN a ELSE b

RECURSIVE Flatten(_)
Flatten(ss) == IF ss = <<>> THEN <<>> ELSE Head(ss) \o Flatten(Tail(ss))

RECURSIVE Dedup(_)
\* "if c not in colors: colors.append(c)": first-seen order, no repeats
Dedup(s) ==
    IF s = <<>> THEN <<>>
    ELSE LET r == Dedup(SubSeq(s, 1, Len(s) - 1)) l == s[Len(s)]
         IN IF l \in Range(r) THEN r ELSE Append(r, l)

\* {**a, **b}
Merge(a, b) == [k \in DOMAIN a \cup DOMAIN b |-> IF k \in DOMAIN b THEN b[k] ELSE a[k]]

(***************************************************************************)
(* Strings as code points: str.lower, "in", and the order of str.          *)
(***************************************************************************)
LowerChar(ch) == IF ch >= 65 /\ ch <= 90 THEN ch + 32 ELSE ch
Lower(s) == [i \in 1..Len(s) |-> LowerChar(s[i])]
Contains(s, sub) ==
    \E i \in 0..(Len(s) - Len(sub)) : \A j \in 1..Len(sub) : s[i + j] = sub[j]
LocStr == <<108, 111, 99>>                       \* "loc"

RECURSIVE StrLess(_, _)
StrLess(a, b) ==
    IF a = <<>> THEN b # <<>>
    ELSE IF b = <<>> THEN FALSE
    ELSE IF Head(a) # Head(b) THEN Head(a) < Head(b)
    ELSE StrLess(Tail(a), Tail(b))

(***************************************************************************)
(* Contour.                                                                *)
(***************************************************************************)
Zip(x, y) == [i \in 1..Min(Len(x), Len(y)) |-> <<x[i], y[i]>>]
Column(points, k) == [i \in 1..Len(points) |-> points[i][k]]

\* Contour.__init__: points from x and y; self.points[:, 0] fails on an
\* array built from no pairs (IndexError)
ContourInitOk(x, y) == Len(Zip(x, y)) > 0
ContourInit(x, y, color, closed, negative, hidden, name, mode, tags, history) ==
    [points |-> Zip(x, y), color |-> color, name |-> name, hidden |-> hidden,
     closed |-> closed, negative |-> negative, tags |-> tags,
     history |-> history, mode |-> mode]

FromDictOk(d) == ContourInitOk(d["x"], d["y"])
FromDict(d) ==
    ContourInit(d["x"], d["y"], d["color"], d["closed"], d["negative"],
                d["hidden"], d["name"], d["mode"], d["tags"], d["history"])

ToDict(c) ==
    [x |-> Column(c.points, 1), y |-> Column(c.points, 2), color |-> c.color,
     closed |-> c.closed, negative |-> c.negative, hidden |-> c.hidden,
     name |-> c.name, mode |-> c.mode, tags |-> c.tags, history |-> c.history]

ContourLen(c) == Len(c.points)
Copy(c) == FromDict(ToDict(c))
WithUpdated(c, kwargs) == FromDict(Merge(ToDict(c), kwargs))

Scaled(v, mag) == [i \in 1..Len(v) |-> RMul(v[i], mag)]
WithMag(c, mag) ==
    WithUpdated(Copy(c), [x |-> Scaled(Column(c.points, 1), mag),
                          y |-> Scaled(Column(c.points, 2), mag)])

\* np.array(tforms).reshape(3, 2): rows (t1 t2), (t3 t4), (t5 t6)
Reshape32(t) == << <<t[1], t[2]>>, <<t[3], t[4]>>, <<t[5], t[6]>> >>
\* np.matmul(points, m.T): row p times the transposed rows of m
MatMulT(points, m) ==
    [i \in 1..Len(points) |->
        [k \in 1..Len(m) |->
            RAdd(RMul(points[i][1], m[k][1]), RMul(points[i][2], m[k][2]))]]
WithTforms(c, tforms) ==
    WithUpdated(Copy(c), [points |-> MatMulT(c.points, Reshape32(tforms))])

(***************************************************************************)
(* Optional arguments, and the outcome of a call.                          *)
(***************************************************************************)
None == [some |-> FALSE]
Some(v) == [some |-> TRUE, val |-> v]
Ok(v) == [outcome |-> "ok", value |-> v]
Raise(e) == [outcome |-> e, value |-> <<>>]

(***************************************************************************)
(* JSERIngester over self.jser, an insertion-ordered mapping: a sequence   *)
(* of [key, val] with distinct keys.                                       *)
(***************************************************************************)
HasKey(d, k) == k \in DOMAIN d
RawKeys(doc) == [i \in 1..Len(doc) |-> doc[i].key]
RawGet(doc, key) == doc[CHOOSE i \in 1..Len(doc) : doc[i].key = key].val

\* ".".join(first key.split(".")[:-1])
Prefix(doc) == RawKeys(doc)[1].prefix

\* int(k.split(".")[-1]): the number whose decimal form the suffix is
IntOfStr(s) == CHOOSE n \in 0..NumSlices : ToString(n) = s

\* f"{self._prefix}.{key}"
FormatKey(doc, key) == [prefix |-> Prefix(doc), suffix |-> ToString(key)]
GetItem(doc, key) == RawGet(doc, FormatKey(doc, key))

Keys(doc) ==
    LET ks == SelectSeq(RawKeys(doc), LAMBDA k : k.suffix # "ser")
    IN [i \in 1..Len(ks) |-> IntOfStr(ks[i].suffix)]

\* contour["name"] = name, for every contour of every group of the slice
StampGroup(g) == [g EXCEPT !.items = [j \in 1..Len(g.items) |->
                                        Merge(g.items[j], [name |-> g.name])]]
StampRecord(rec) ==
    [rec EXCEPT !.contours = [g \in 1..Len(rec.contours) |-> StampGroup(rec.contours[g])]]
StampSlices(doc, zs) ==
    [i \in 1..Len(doc) |->
        IF doc[i].key.suffix # "ser" /\ doc[i].key.prefix = Prefix(doc)
           /\ IntOfStr(doc[i].key.suffix) \in zs
        THEN [doc[i] EXCEPT !.val = StampRecord(doc[i].val)]
        ELSE doc[i]]

FlattenedContours(doc, z) ==
    LET gs == GetItem(doc, z)["contours"]
    IN Flatten([g \in 1..Len(gs) |-> StampGroup(gs[g]).items])

GetRawContoursForSlice(doc, z) ==
    LET ds == FlattenedContours(doc, z)
    IN IF \E i \in 1..Len(ds) : ~FromDictOk(ds[i]) THEN Raise("IndexError")
       ELSE Ok([i \in 1..Len(ds) |-> FromDict(ds[i])])

GetUniqueColorsForSlice(doc, z) ==
    LET r == GetRawContoursForSlice(doc, z)
    IN IF r.outcome # "ok" THEN r
       ELSE Ok(Dedup([i \in 1..Len(r.value) |-> r.value[i].color]))

\* list(int(f) for f in c)
NormalizeColor(c) == [i \in 1..Len(c) |-> Whole(Trunc(c[i]))]
PassesFilter(d, filter) ==
    \/ ~filter.some
    \/ \E i \in 1..Len(filter.val) : d.color = NormalizeColor(filter.val[i])

Calibrate(d, rec) == WithTforms(WithMag(d, RInv(rec["mag"])), rec["tforms"]["default"])

\* a slice without mag or tforms.default taken as it is stored
ContoursUncalibrated(doc, z, filter) ==
    LET r == GetRawContoursForSlice(doc, z)
        rec == GetItem(doc, z)
        kept == SelectSeq(r.value, LAMBDA d : PassesFilter(d, filter))
    IN IF r.outcome # "ok" THEN r
       ELSE IF kept = <<>> THEN Ok(<<>>)
       ELSE IF ~HasKey(rec, "mag") \/ ~HasKey(rec, "tforms") THEN Ok(kept)
       ELSE Ok([i \in 1..Len(kept) |-> Calibrate(kept[i], rec)])

Contours(doc, z, filter) ==
    LET r == GetRawContoursForSlice(doc, z)
        rec == GetItem(doc, z)
        kept == SelectSeq(r.value, LAMBDA d : PassesFilter(d, filter))
    IN IF r.outcome # "ok" THEN r
       ELSE IF kept = <<>> THEN Ok(<<>>)
       ELSE IF ~HasKey(rec, "mag") THEN Raise("KeyError")
       ELSE IF rec["mag"][1] = 0 THEN Raise("ZeroDivisionError")
       ELSE IF ~HasKey(rec, "tforms") THEN Raise("KeyError")
       ELSE IF ~HasKey(rec["tforms"], "default") THEN Raise("KeyError")
       ELSE Ok([i \in 1..Len(kept) |-> Calibrate(kept[i], rec)])

(***************************************************************************)
(* Loops over self.keys(): the index of the first slice whose step fails,  *)
(* or 0.                                                                   *)
(***************************************************************************)
FirstFail(fails) ==
    IF \E i \in 1..Len(fails) : fails[i]
    THEN CHOOSE i \in 1..Len(fails) : fails[i] /\ \A j \in 1..(i - 1) : ~fails[j]
    ELSE 0

ScannedUntil(ks, f) == {ks[i] : i \in 1..(IF f = 0 THEN Len(ks) ELSE f)}

GetAllUniqueColors(doc) ==
    LET ks == Keys(doc)
        f == FirstFail([i \in 1..Len(ks) |-> GetRawContoursForSlice(doc, ks[i]).outcome # "ok"])
    IN IF f # 0 THEN GetRawContoursForSlice(doc, ks[f])
       ELSE Ok(Dedup(Flatten([i \in 1..Len(ks) |->
                 LET cs == GetRawContoursForSlice(doc, ks[i]).value
                 IN [j \in 1..Len(cs) |-> cs[j].color]])))

\* Counter(all_names): distinct names in first-seen order, each with its count
CounterOf(names) ==
    LET ds == Dedup(names)
    IN [i \in 1..Len(ds) |->
          <<ds[i], Cardinality({j \in 1..Len(names) : names[j] = ds[i]})>>]

SliceNames(doc, z) ==
    LET cs == Contours(doc, z, None).value IN [j \in 1..Len(cs) |-> cs[j].name]

CountNames(doc) ==
    LET ks == Keys(doc)
        f == FirstFail([i \in 1..Len(ks) |-> Contours(doc, ks[i], None).outcome # "ok"])
    IN IF f # 0 THEN Contours(doc, ks[f], None)
       ELSE Ok(CounterOf(Flatten([i \in 1..Len(ks) |-> SliceNames(doc, ks[i])])))

(***************************************************************************)
(* plot_contours.  A canvas maps each pixel <<x, y>> to its value; src is  *)
(* a history field: the name and the number of points of the contour whose *)
(* fill wrote the value.                                                   *)
(***************************************************************************)
ImageSizeXY == <<CanvasSize, CanvasSize>>
\* np.zeros(image_size_xy): image_size_xy[0] rows (y), image_size_xy[1] columns (x)
Pixels == (0..(ImageSizeXY[2] - 1)) \X (0..(ImageSizeXY[1] - 1))

Background == [name |-> <<>>, points |-> 0]
Painter(con) == [name |-> con.name, points |-> ContourLen(con)]
Zeros == [p \in Pixels |-> [val |-> 0, src |-> Background]]

\* np.array([con.x, con.y]).T.astype(np.int32)
IntPoints(con) == [i \in 1..Len(con.points) |->
                     <<Trunc(con.points[i][1]), Trunc(con.points[i][2])>>]

Between(v, a, b) == (a <= v /\ v <= b) \/ (b <= v /\ v <= a)
OnSegment(p, a, b) ==
    /\ (b[1] - a[1]) * (p[2] - a[2]) = (b[2] - a[2]) * (p[1] - a[1])
    /\ Between(p[1], a[1], b[1])
    /\ Between(p[2], a[2], b[2])
\* the edge a-b crosses the horizontal ray from p to the right
Crosses(p, a, b) ==
    /\ (a[2] > p[2]) # (b[2] > p[2])
    /\ LET dy == b[2] - a[2]
           lhs == (p[1] - a[1]) * dy
           rhs == (p[2] - a[2]) * (b[1] - a[1])
       IN IF dy > 0 THEN lhs < rhs ELSE lhs > rhs
\* cv2.FILLED: the closed outline and the pixels inside it (even-odd)
FillCovers(poly, p) ==
    LET n == Len(poly)
        nxt(i) == (i % n) + 1
    IN /\ n >= 1
       /\ \/ \E i \in 1..n : OnSegment(p, poly[i], poly[nxt(i)])
          \/ Cardinality({i \in 1..n : Crosses(p, poly[i], poly[nxt(i)])}) % 2 = 1

\* the scalar colour stored into a uint8 image saturates
Saturate(v) == IF v > Uint8Max THEN Uint8Max ELSE v

DrawContours(img, con, color) ==
    LET poly == IntPoints(con)
        fill == [val |-> Saturate(color), src |-> Painter(con)]
    IN [p \in Pixels |-> IF FillCovers(poly, p) THEN fill ELSE img[p]]

\* list.index: 0-based position of the first equal element
IndexOk(list, x) == \E i \in 1..Len(list) : list[i] = x
Index(list, x) ==
    (CHOOSE i \in 1..Len(list) : list[i] = x /\ \A j \in 1..(i - 1) : list[j] # x) - 1

IsLoc(name) == Contains(Lower(name), LocStr)

\* if len(con.x) < 3: continue
DrawOne(img, con, sorted_name_list) ==
    IF ContourLen(con) < MinFillPoints THEN img
    ELSE DrawContours(img, con, Index(sorted_name_list, con.name))

RECURSIVE DrawAll(_, _, _)
DrawAll(img, cs, sorted_name_list) ==
    IF cs = <<>> THEN img
    ELSE DrawAll(DrawOne(img, Head(cs), sorted_name_list), Tail(cs), sorted_name_list)

KeepLoc(cs) == cs

\* cs = [c for c in cs if "loc" not in c.name.lower()]
WithoutLoc(cs) == SelectSeq(cs, LAMBDA c : ~IsLoc(c.name))

\* one iteration of "for col in unique_colors"
PlotColor(doc, z, col, sorted_name_list) ==
    LET r == Contours(doc, z, Some(<<col>>))
        cs == WithoutLoc(r.value)
    IN IF r.outcome # "ok" THEN r
       ELSE IF Len(cs) = 0 THEN Ok([skip |-> TRUE])
       ELSE IF \E i \in 1..Len(cs) : ~IndexOk(sorted_name_list, cs[i].name)
            THEN Raise("ValueError")
       ELSE Ok([skip |-> FALSE, img |-> DrawAll(Zeros, cs, sorted_name_list)])

RECURSIVE Join(_)
Join(strs) ==
    IF Len(strs) = 0 THEN ""
    ELSE IF Len(strs) = 1 THEN strs[1]
    ELSE strs[1] \o "_" \o Join(Tail(strs))
\* "_".join(map(str, col))
ColorKey(col) == Join([i \in 1..Len(col) |-> StrNum(col[i])])

\* d[k] = v on an insertion-ordered mapping
DictSet(d, k, v) ==
    IF \E i \in 1..Len(d) : d[i].key = k
    THEN [i \in 1..Len(d) |-> IF d[i].key = k THEN [key |-> k, val |-> v] ELSE d[i]]
    ELSE Append(d, [key |-> k, val |-> v])

RECURSIVE CollectImgs(_, _, _)
CollectImgs(cols, per, n) ==
    IF n = 0 THEN <<>>
    ELSE LET rest == CollectImgs(cols, per, n - 1)
         IN IF per[n].value.skip THEN rest
            ELSE DictSet(rest, ColorKey(cols[n]), per[n].value.img)

PlotContours(doc, z, sorted_name_list) ==
    LET uc == GetUniqueColorsForSlice(doc, z)
        cols == uc.value
        per == [i \in 1..Len(cols) |-> PlotColor(doc, z, cols[i], sorted_name_list)]
        f == FirstFail([i \in 1..Len(cols) |-> per[i].outcome # "ok"])
    IN IF uc.outcome # "ok" THEN uc
       ELSE IF f # 0 THEN per[f]
       ELSE Ok(CollectImgs(cols, per, Len(cols)))

(***************************************************************************)
(* The catalog of jser_to_image_stack.                                     *)
(***************************************************************************)
InsertAsc(sorted, item) ==
    LET k == Cardinality({i \in 1..Len(sorted) : ~StrLess(item[1], sorted[i][1])})
    IN SubSeq(sorted, 1, k) \o <<item>> \o SubSeq(sorted, k + 1, Len(sorted))

\* sorted(..., key=lambda x: x[0], reverse=True): insertion keeps the order
\* of descending keys
InsertDesc(sorted, item) ==
    LET k == Cardinality({i \in 1..Len(sorted) : ~StrLess(sorted[i][1], item[1])})
    IN SubSeq(sorted, 1, k) \o <<item>> \o SubSeq(sorted, k + 1, Len(sorted))

RECURSIVE SortedDesc(_)
SortedDesc(items) ==
    IF items = <<>> THEN <<>>
    ELSE InsertDesc(SortedDesc(SubSeq(items, 1, Len(items) - 1)), items[Len(items)])

SortedNameList(name_counts) ==
    LET sorted_names == SortedDesc(name_counts)
    IN [i \in 1..Len(sorted_names) |-> sorted_names[i][1]]

\* f"{output_path}/{col}/{z}.png"
OutputFile(col, z) == [dir |-> col, file |-> ToString(z) \o ".png"]

(***************************************************************************)
(* Documents.  A slice record holds "contours" (an ordered mapping from a  *)
(* name to its raw contour dicts), "mag" and "tforms" -> "default".        *)
(***************************************************************************)
NameA == <<65>>                                  \* "A"
NameB == <<66>>                                  \* "B"
NameLoc1 == <<76, 111, 99, 49>>                  \* "Loc1"

Red == <<Whole(1), Whole(0), Whole(0)>>
Green == <<Whole(0), Whole(1), Whole(0)>>
Fractional == <<Rat(3, 2), Whole(0), Whole(0)>>      \* (1.5, 0, 0)

Wholes(v) == [i \in 1..Len(v) |-> Whole(v[i])]
RawDict(x, y, color) ==
    [x |-> Wholes(x), y |-> Wholes(y), color |-> color, closed |-> TRUE,
     negative |-> FALSE, hidden |-> FALSE, mode |-> 11, tags |-> <<>>,
     history |-> <<>>]

Named(name, x, y, color) == [name |-> name, dict |-> RawDict(x, y, color)]

\* the named raw contours of the documents jser_to_image_stack is run on
StackEntries ==
    { Named(NameA, <<0, 4, 0>>, <<0, 0, 4>>, Red),
      Named(NameB, <<0, 4, 0>>, <<0, 4, 4>>, Green),
      Named(NameLoc1, <<0, 4, 0>>, <<0, 4, 4>>, Red) }

\* the named raw contours of the documents single calls are made on
CallEntries ==
    { Named(NameA, <<0, 4, 0>>, <<0, 0, 4>>, Red),
      Named(NameB, <<0, 4, 0>>, <<0, 4, 4>>, Red),
      Named(NameLoc1, <<0, 4, 0>>, <<0, 4, 4>>, Red),
      Named(NameA, <<0, 4>>, <<0, 4>>, Green),
      Named(NameB, <<>>, <<>>, Green),
      Named(NameA, <<0, 4, 0>>, <<0, 0, 4>>, Fractional) }

SeqsUpTo(S, n) == UNION {[1..k -> S] : k \in 0..n}

\* one sequence of entries per slice, at most `budget` entries in all
RECURSIVE Layouts(_, _, _)
Layouts(entries, n, budget) ==
    IF n = 0 THEN {<<>>}
    ELSE UNION { {Append(l, es) : l \in Layouts(entries, n - 1, budget - Len(es))}
                 : es \in SeqsUpTo(entries, budget) }

\* the ordered mapping name -> [dict, ...] that holds the entries
GroupByName(es) ==
    LET names == Dedup([i \in 1..Len(es) |-> es[i].name])
    IN [g \in 1..Len(names) |->
          [name |-> names[g],
           items |-> LET mine == SelectSeq(es, LAMBDA e : e.name = names[g])
                     IN [j \in 1..Len(mine) |-> mine[j].dict]]]

SliceIndices == 0..(NumSlices - 1)
\* at most one slice of a document lacks one of the calibration fields
Faults(fields) ==
    {[z |-> -1, field |-> "none"]}
    \cup {[z |-> z, field |-> f] : z \in SliceIndices, f \in fields}

MagOf(z) == Whole(2 ^ (z + 1))
TformsOf(z) == Wholes(<<z, 1, 1, 0, 0, 0>>)

SliceRecord(z, es, fault) ==
    LET fields == {"contours", "mag", "tforms"}
                  \ (IF fault.z = z THEN {fault.field} ELSE {})
    IN [k \in fields |->
          CASE k = "contours" -> GroupByName(es)
            [] k = "mag" -> MagOf(z)
            [] k = "tforms" -> [default |-> TformsOf(z)]]

SeriesKey == [prefix |-> "series", suffix |-> "ser"]
SliceKey(z) == [prefix |-> "series", suffix |-> ToString(z)]

Document(layout, fault) ==
    <<[key |-> SeriesKey, val |-> [name |-> "series"]]>>
    \o [i \in 1..NumSlices |->
          [key |-> SliceKey(i - 1), val |-> SliceRecord(i - 1, layout[i], fault)]]

Documents(entries, fields) ==
    {Document(l, f) : l \in Layouts(entries, NumSlices, MaxContours), f \in Faults(fields)}

ColorFilters == {None, Some(<<Red>>), Some(<<Green>>), Some(<<Fractional>>)}
SliceSets == {None} \cup {Some(zs) : zs \in SUBSET SliceIndices}

(***************************************************************************)
(* State.                                                                  *)
(***************************************************************************)
VARIABLES
    given,             \* the mapping as it was when the caller passed it
    jser,              \* the mapping the caller passed, shared with JSERIngester
    last,              \* the last call on the JSERIngester and what it returned
    pc,                \* position of jser_to_image_stack
    zs,                \* its slice restriction
    idx,               \* position of its current loop in seg.keys()
    all_names,         \* count_names: the names gathered so far
    sorted_name_list,  \* the catalog
    plotted,           \* the slices plot_contours was called for, in order
    files              \* the cv2.imwrite calls, in order

vars == <<given, jser, last, pc, zs, idx, all_names, sorted_name_list, plotted, files>>
runVars == <<pc, zs, idx, all_names, sorted_name_list, plotted, files>>

NoCall == [op |-> "none", z |-> -1, filter |-> None, res |-> Ok(<<>>)]
Call(op, z, filter, res) == [op |-> op, z |-> z, filter |-> filter, res |-> res]

InitOn(documents) ==
    /\ given \in documents
    /\ jser = given
    /\ last = NoCall
    /\ pc = "idle"
    /\ zs = None
    /\ idx = 0
    /\ all_names = <<>>
    /\ sorted_name_list = <<>>
    /\ plotted = <<>>
    /\ files = <<>>

(***************************************************************************)
(* Calls on a JSERIngester built from the mapping.                         *)
(***************************************************************************)
\* the sorted_name_list jser_to_image_stack passes to plot_contours: the
\* names of all contours of the document, sorted as its catalog is
DocumentCatalog(doc) ==
    LET ks == Keys(doc)
        ds == Flatten([i \in 1..Len(ks) |-> FlattenedContours(doc, ks[i])])
    IN SortedNameList(CounterOf([j \in 1..Len(ds) |-> ds[j]["name"]]))

\* a call is made on the JSERIngester as constructed
Fresh == last = NoCall

KeysCall ==
    /\ Fresh
    /\ last' = Call("keys", -1, None, Ok(Keys(jser)))
    /\ UNCHANGED <<given, jser, runVars>>

GetRawContoursForSliceCall ==
    \E z \in Range(Keys(jser)) :
        /\ Fresh
        /\ last' = Call("get_raw_contours_for_slice", z, None,
                        GetRawContoursForSlice(jser, z))
        /\ jser' = StampSlices(jser, {z})
        /\ UNCHANGED <<given, runVars>>

GetUniqueColorsForSliceCall ==
    \E z \in Range(Keys(jser)) :
        /\ Fresh
        /\ last' = Call("get_unique_colors_for_slice", z, None,
                        GetUniqueColorsForSlice(jser, z))
        /\ jser' = StampSlices(jser, {z})
        /\ UNCHANGED <<given, runVars>>

GetAllUniqueColorsCall ==
    LET ks == Keys(jser)
        f == FirstFail([i \in 1..Len(ks) |->
                          GetRawContoursForSlice(jser, ks[i]).outcome # "ok"])
    IN /\ Fresh
       /\ last' = Call("get_all_unique_colors", -1, None, GetAllUniqueColors(jser))
       /\ jser' = StampSlices(jser, ScannedUntil(ks, f))
       /\ UNCHANGED <<given, runVars>>

ContoursCall ==
    \E z \in Range(Keys(jser)), filter \in ColorFilters :
        /\ Fresh
        /\ last' = Call("contours", z, filter, Contours(jser, z, filter))
        /\ jser' = StampSlices(jser, {z})
        /\ UNCHANGED <<given, runVars>>

CountNamesCall ==
    LET ks == Keys(jser)
        f == FirstFail([i \in 1..Len(ks) |-> Contours(jser, ks[i], None).outcome # "ok"])
    IN /\ Fresh
       /\ last' = Call("count_names", -1, None, CountNames(jser))
       /\ jser' = StampSlices(jser, ScannedUntil(ks, f))
       /\ UNCHANGED <<given, runVars>>

\* plot_contours with the catalog of the document, as jser_to_image_stack calls it
PlotContoursCall ==
    \E z \in Range(Keys(jser)) :
        /\ Fresh
        /\ last' = Call("plot_contours", z, None,
                        PlotContours(jser, z, DocumentCatalog(jser)))
        /\ jser' = StampSlices(jser, {z})
        /\ UNCHANGED <<given, runVars>>

NextCalls ==
    \/ KeysCall
    \/ GetRawContoursForSliceCall
    \/ GetUniqueColorsForSliceCall
    \/ GetAllUniqueColorsCall
    \/ ContoursCall
    \/ CountNamesCall
    \/ PlotContoursCall

InitCalls == InitOn(Documents(CallEntries, {"mag", "tforms"}))

SpecCalls == InitCalls /\ [][NextCalls]_vars

(***************************************************************************)
(* jser_to_image_stack(jser, output_path, image_size_xy, progress, zs).    *)
(***************************************************************************)
\* seg = JSERIngester(jser); count_names starts
Start ==
    \E restriction \in SliceSets :
        /\ pc = "idle"
        /\ pc' = "count_names"
        /\ zs' = restriction
        /\ idx' = 1
        /\ UNCHANGED <<given, jser, last, all_names, sorted_name_list, plotted, files>>

\* a scan that leaves out the slices zs excludes
CountRequestedSlice ==
    /\ pc = "count_names"
    /\ idx <= Len(Keys(jser))
    /\ LET z == Keys(jser)[idx]
           r == IF zs.some /\ z \notin zs.val THEN Ok(<<>>) ELSE Contours(jser, z, None)
       IN /\ jser' = StampSlices(jser, {z})
          /\ IF r.outcome = "ok"
             THEN /\ all_names' = all_names \o [j \in 1..Len(r.value) |-> r.value[j].name]
                  /\ idx' = idx + 1
                  /\ pc' = pc
             ELSE /\ pc' = "error"
                  /\ UNCHANGED <<all_names, idx>>
    /\ UNCHANGED <<given, last, zs, sorted_name_list, plotted, files>>

\* count_names: one iteration of "for z in self.keys()"
CountSlice ==
    /\ pc = "count_names"
    /\ idx <= Len(Keys(jser))
    /\ LET z == Keys(jser)[idx]
           r == Contours(jser, z, None)
       IN /\ jser' = StampSlices(jser, {z})
          /\ IF r.outcome = "ok"
             THEN /\ all_names' = all_names \o [j \in 1..Len(r.value) |-> r.value[j].name]
                  /\ idx' = idx + 1
                  /\ pc' = pc
             ELSE /\ pc' = "error"
                  /\ UNCHANGED <<all_names, idx>>
    /\ UNCHANGED <<given, last, zs, sorted_name_list, plotted, files>>

\* cnames = Counter(all_names); sorted_names; sorted_name_list
BuildCatalog ==
    /\ pc = "count_names"
    /\ idx > Len(Keys(jser))
    /\ sorted_name_list' = SortedNameList(CounterOf(all_names))
    /\ pc' = "render"
    /\ idx' = 1
    /\ UNCHANGED <<given, jser, last, zs, all_names, plotted, files>>

Unrestricted(z) == FALSE

\* if zs is not None and z not in zs: continue
Restricted(z) == zs.some /\ z \notin zs.val

SkipSlice ==
    /\ pc = "render"
    /\ idx <= Len(Keys(jser))
    /\ Restricted(Keys(jser)[idx])
    /\ idx' = idx + 1
    /\ UNCHANGED <<given, jser, last, pc, zs, all_names, sorted_name_list, plotted, files>>

Writes(imgs, z) ==
    [i \in 1..Len(imgs) |-> [path |-> OutputFile(imgs[i].key, z), img |-> imgs[i].val]]

\* imgs = plot_contours(...); one cv2.imwrite per item of imgs
RenderSlice ==
    /\ pc = "render"
    /\ idx <= Len(Keys(jser))
    /\ ~Restricted(Keys(jser)[idx])
    /\ LET z == Keys(jser)[idx]
           r == PlotContours(jser, z, sorted_name_list)
       IN /\ jser' = StampSlices(jser, {z})
          /\ plotted' = Append(plotted, z)
          /\ IF r.outcome = "ok"
             THEN /\ files' = files \o Writes(r.value, z)
                  /\ idx' = idx + 1
                  /\ pc' = pc
             ELSE /\ pc' = "error"
                  /\ UNCHANGED <<files, idx>>
    /\ UNCHANGED <<given, last, zs, all_names, sorted_name_list>>

Finish ==
    /\ pc = "render"
    /\ idx > Len(Keys(jser))
    /\ pc' = "done"
    /\ UNCHANGED <<given, jser, last, zs, idx, all_names, sorted_name_list, plotted, files>>

Next ==
    \/ Start
    \/ CountSlice
    \/ BuildCatalog
    \/ SkipSlice
    \/ RenderSlice
    \/ Finish

Init == InitOn(Documents(StackEntries, {"mag"}))

Spec == Init /\ [][Next]_vars

(***************************************************************************)
(* The document as the caller built it, read without the program's         *)
(* operations.                                                             *)
(***************************************************************************)
SlicePositions(doc) == {i \in 1..Len(doc) : doc[i].key.suffix # "ser"}
RecordOf(doc, z) ==
    doc[CHOOSE i \in SlicePositions(doc) : doc[i].key.suffix = ToString(z)].val
\* the raw contours of slice z, each with the name of its group
NamedRaw(doc, z) ==
    LET gs == RecordOf(doc, z)["contours"]
    IN Flatten([g \in 1..Len(gs) |->
          [j \in 1..Len(gs[g].items) |-> [name |-> gs[g].name, dict |-> gs[g].items[j]]]])
DocNames(doc) ==
    UNION {LET raw == NamedRaw(doc, z) IN {raw[j].name : j \in 1..Len(raw)} :
           z \in SliceIndices}
\* how many names of the document sort after this one
Label(doc, name) == Cardinality({m \in DocNames(doc) : StrLess(name, m)})
Uncalibrated(doc, z) ==
    \/ "mag" \notin DOMAIN RecordOf(doc, z)
    \/ "tforms" \notin DOMAIN RecordOf(doc, z)
Selected(d, filter) ==
    \/ ~filter.some
    \/ \E i \in 1..Len(filter.val) :
          /\ Len(d["color"]) = Len(filter.val[i])
          /\ \A k \in 1..Len(d["color"]) : d["color"][k] = <<Trunc(filter.val[i][k]), 1>>
Masks(res) == {res.value[i] : i \in 1..Len(res.value)}
Written == {files[i] : i \in 1..Len(files)}
Painted(img) == {p \in Pixels : img[p].src # Background}

(***************************************************************************)
(* C1 (as claimed): every contour contours(z) returns holds the raw points *)
(* multiplied by 1/mag_z and then by the reshaped tforms_z.default, not    *)
(* the coordinates it had before the transform.                            *)
(***************************************************************************)
C1_CalibratedPointsAreTheProduct ==
    (last.op = "contours" /\ last.res.outcome = "ok") =>
        LET rec == RecordOf(given, last.z)
            raws == SelectSeq(NamedRaw(given, last.z), LAMBDA e : Selected(e.dict, last.filter))
            inv == RInv(rec["mag"])
            t == rec["tforms"]["default"]
        IN /\ Len(last.res.value) = Len(raws)
           /\ \A i \in 1..Len(raws) :
                LET d == raws[i].dict
                    got == last.res.value[i].points
                IN /\ Len(got) = Len(d["x"])
                   /\ \A j \in 1..Len(got) :
                        LET sx == RMul(d["x"][j], inv)
                            sy == RMul(d["y"][j], inv)
                        IN /\ got[j][1] = RAdd(RMul(sx, t[1]), RMul(sy, t[2]))
                           /\ got[j][2] = RAdd(RMul(sx, t[3]), RMul(sy, t[4]))

(***************************************************************************)
(* C2: once the catalog is built, a name's label is its 0-based position   *)
(* among all distinct contour names of the document in descending          *)
(* lexicographic order, whatever the scan order and whatever zs; every     *)
(* pixel a structure fills on any written slice holds that label.          *)
(***************************************************************************)
C2_LabelIsDescendingPosition ==
    (pc \in {"render", "done"}) =>
        LET names == DocNames(given)
            label == [n \in names |-> Cardinality({m \in names : StrLess(n, m)})]
        IN /\ Len(sorted_name_list) = Cardinality(names)
           /\ \A n \in names :
                 /\ IndexOk(sorted_name_list, n)
                 /\ Index(sorted_name_list, n) = label[n]
           /\ \A f \in Written : \A p \in Painted(f.img) :
                 /\ f.img[p].src.name \in names
                 /\ f.img[p].val = label[f.img[p].src.name]

C2_Witness ==
    /\ pc = "done"
    /\ all_names = <<NameA, NameB>>
    /\ sorted_name_list = <<NameB, NameA>>
    /\ zs = Some({0})
    /\ \E f \in Written : \E p \in Painted(f.img) :
          f.img[p].src.name = NameA /\ f.img[p].val = 1

(***************************************************************************)
(* C3 (as claimed): whatever calls were made, the wrapped mapping equals   *)
(* the mapping the JSERIngester was constructed from.                      *)
(***************************************************************************)
C3_DocumentUnchanged == jser = given

C5_MaskOnlyForQualifyingColour ==
    (last.op = "plot_contours" /\ last.res.outcome = "ok") =>
        \A m \in Masks(last.res) :
            \E j \in 1..Len(NamedRaw(given, last.z)) :
                LET e == NamedRaw(given, last.z)[j]
                IN /\ ColorKey(e.dict["color"]) = m.key
                   /\ ~Contains(Lower(e.name), LocStr)
                   /\ Len(e.dict["x"]) >= 3

(***************************************************************************)
(* C6: no pixel of a written mask is filled by a contour whose name        *)
(* contains "loc" in any letter case, yet every such name is in the        *)
(* catalog and counts in the position of every other name.                 *)
(***************************************************************************)
C6_LocCountedNotDrawn ==
    /\ \A f \in Written : \A p \in Painted(f.img) :
          ~Contains(Lower(f.img[p].src.name), LocStr)
    /\ (pc \in {"render", "done"}) =>
          LET names == DocNames(given)
          IN \A n \in names :
                /\ n \in Range(sorted_name_list)
                /\ Index(sorted_name_list, n) =
                      Cardinality({m \in names : StrLess(n, m)})

C6_Witness ==
    /\ pc = "done"
    /\ DocNames(given) = {NameA, NameLoc1}
    /\ \E z \in SliceIndices :
          /\ \E j \in 1..Len(NamedRaw(given, z)) : NamedRaw(given, z)[j].name = NameLoc1
          /\ \E f \in Written :
                /\ f.path = OutputFile("1_0_0", z)
                /\ \E p \in Painted(f.img) :
                      f.img[p].src.name = NameA /\ f.img[p].val = 1

(***************************************************************************)
(* C7: only slices that zs admits are rasterized, each once; every file    *)
(* written is a mask plot_contours returned for such a slice, at           *)
(* <color_key>/<z>.png, no path is written twice, and at the end every     *)
(* mask of every admitted slice has been written.                          *)
(***************************************************************************)
C7_WritesAreTheAdmittedMasks ==
    LET admitted(z) == ~zs.some \/ z \in zs.val
        fileOf(z) == ToString(z) \o ".png"
    IN /\ \A i \in 1..Len(plotted) :
             /\ admitted(plotted[i])
             /\ \A j \in 1..Len(plotted) : plotted[j] = plotted[i] => j = i
       /\ \A i, j \in 1..Len(files) : files[i].path = files[j].path => i = j
       /\ \A f \in Written : \E z \in Range(plotted) : f.path.file = fileOf(z)
       /\ \A z \in Range(plotted) :
             {f \in Written : f.path.file = fileOf(z)} =
             {[path |-> [dir |-> m.key, file |-> fileOf(z)], img |-> m.val] :
                 m \in Masks(PlotContours(jser, z, sorted_name_list))}
       /\ pc = "done" => \A z \in SliceIndices : admitted(z) => z \in Range(plotted)

C7_Witness ==
    /\ pc = "done"
    /\ zs = Some({1})
    /\ plotted = <<1>>
    /\ Len(files) = 1
    /\ NamedRaw(given, 0) # <<>>

(***************************************************************************)
(* C8: whenever a slice has been rasterized or a file written, the catalog *)
(* holds exactly the names of all contours of every slice, so every name   *)
(* plot_contours looks up is in it; a run that ended in an error has       *)
(* rasterized nothing and written nothing.                                 *)
(***************************************************************************)
C8_CatalogBeforeOutput ==
    /\ (pc \in {"render", "done"} \/ plotted # <<>> \/ files # <<>>) =>
          /\ Range(sorted_name_list) = DocNames(given)
          /\ all_names = Flatten([i \in 1..NumSlices |->
                [j \in 1..Len(NamedRaw(given, i - 1)) |-> NamedRaw(given, i - 1)[j].name]])
    /\ (pc \in {"idle", "count_names", "error"}) =>
          /\ plotted = <<>>
          /\ files = <<>>
          /\ sorted_name_list = <<>>

C8_Witness ==
    /\ pc = "error"
    /\ idx = 2
    /\ zs = Some({0})
    /\ NamedRaw(given, 0) # <<>>
    /\ files = <<>>

(***************************************************************************)
(* C9 (as claimed): in every mask plot_contours returns, a pixel is 0      *)
(* exactly when no rendered contour covers it, and a covered pixel holds   *)
(* the catalog label of the last contour that covers it.                   *)
(***************************************************************************)
C9_ZeroIsBackground ==
    (last.op = "plot_contours" /\ last.res.outcome = "ok") =>
        \A m \in Masks(last.res) : \A p \in Pixels :
            /\ m.val[p].val = 0 <=> m.val[p].src = Background
            /\ m.val[p].src # Background =>
                  m.val[p].val = Label(given, m.val[p].src.name)

(***************************************************************************)
(* C10 (as claimed): a contour with fewer than 3 points fails no call:     *)
(* flattening always succeeds, calibrating and counting and rasterizing    *)
(* succeed on calibrated slices, and no pixel is filled by such a contour. *)
(***************************************************************************)
C10_DegenerateIsNoError ==
    /\ last.op \in {"get_raw_contours_for_slice", "get_unique_colors_for_slice",
                    "get_all_unique_colors"} => last.res.outcome = "ok"
    /\ (last.op \in {"contours", "plot_contours"} /\ ~Uncalibrated(given, last.z)) =>
          last.res.outcome = "ok"
    /\ (last.op = "count_names" /\ \A z \in SliceIndices : ~Uncalibrated(given, z)) =>
          last.res.outcome = "ok"
    /\ (last.op = "plot_contours" /\ last.res.outcome = "ok") =>
          \A m \in Masks(last.res) : \A p \in Painted(m.val) :
              m.val[p].src.points >= 3

=============================================================================
